---- MODULE Spec2Model ----
(***************************************************************************)
(* A model of ipfs-ds-postgres: a go-datastore backed by one PostgreSQL    *)
(* table (key TEXT PRIMARY KEY, data BYTEA).                               *)
(*                                                                         *)
(*   Spec       single-key operations of datastore.go (Get, Has, GetSize,  *)
(*              Put, Delete, Sync)                                         *)
(*   SpecBatch  the batch of batching.go and of its earlier version        *)
(*   SpecQuery  Datastore.Query and the result sequence it returns         *)
(*   SpecPool   result sequences, one after the other, on a bounded pool   *)
(*   SpecPrefix Datastore.Query by prefix                                  *)
(*   SpecConcurrent  Datastore.Put called by several callers at once       *)
(*   SpecFrame  single-key operations followed by one Query                *)
(*                                                                         *)
(* Strings are sequences of one-character strings, byte slices are         *)
(* sequences of bytes, and the table is a set of rows.                     *)
(***************************************************************************)
EXTENDS Integers, Sequences, FiniteSets, TLC

VARIABLES
    table,      \* the rows of the table: a set of [key, data]
    ret,        \* what the last call on the datastore returned
    lastWrite,  \* per key, the last write that returned nil (history)
    build,      \* which version of the batch is compiled in
    batch,      \* the statements queued in the batch (pgx.Batch)
    calls,      \* the Put/Delete calls made on the batch, in order (history)
    sent,       \* what the engine did with the last batch sent (history)
    q,          \* the descriptor of the last Query
    pipe,       \* its cursor and the state of the stages stacked on it
    out,        \* the results its consumer was handed, in order (history)
    last,       \* the Result that came with the end of the sequence
    status,     \* of the sequence: "none", "open", "ended" or "closed"
    conns,      \* connections checked out of the pool
    leaked,     \* open sequences their callers dropped unclosed (history)
    closes,     \* what each Close of the sequence returned (history)
    inflight,   \* per concurrent caller, the Put it is in and how far it is
    wire        \* the statements the last call on the datastore or on the
                \* batch sent to the engine, each with its text and its
                \* bound parameters (history)

storeVars == <<table, ret, lastWrite>>
batchVars == <<build, batch, calls, sent>>
queryVars == <<q, pipe, out, last, status, conns, leaked, closes>>
callVars  == <<inflight, wire>>
vars == <<storeVars, batchVars, queryVars, callVars>>

----------------------------------------------------------------------------
(* Bounds *)

MaxValLen == 1          \* longest value, in bytes
MaxBatch  == 2          \* most Put/Delete calls on one batch
MaxPrefix == 3          \* longest query prefix, in characters
MaxRows   == 2          \* most rows in the table a Query runs on
MaxLimit  == 1          \* largest Limit of a descriptor
MaxOffset == 1          \* largest Offset of a descriptor
MaxConns  == 2          \* connections in the pool
MaxCallers == 2         \* callers that call Put at the same time
MaxCloses == 2          \* most Close calls on one result sequence

----------------------------------------------------------------------------
(* Values, keys and errors *)

Byte == {0, 1}

SeqsUpTo(S, n) == UNION {[1..m -> S] : m \in 0..n}

Values == SeqsUpTo(Byte, MaxValLen)

\* ds.Key values the callers use; key.String() is the stored text.
StoreKeys == {<<"/", "a">>, <<"/", "a", "/", "b">>}

Nil         == "nil"
ErrNotFound == "ds.ErrNotFound"
ErrNoRows   == "pgx.ErrNoRows"
NoFault     == "none"
BackendErrors == {"backend error"}
Faults      == {NoFault} \cup BackendErrors

InvalidSize == 0 - 1

Rows(K, V) == [key : K, data : V]

\* The primary key: at most one row per key.
PrimaryKey(t) == \A r1, r2 \in t : r1.key = r2.key => r1 = r2

Tables(K, V) == {t \in SUBSET Rows(K, V) : PrimaryKey(t)}

----------------------------------------------------------------------------
(* The statements, as the backing engine executes them *)

\* SELECT data FROM table WHERE key = $1
SelectData(t, k) == {r.data : r \in {x \in t : x.key = k}}

\* SELECT octet_length(data) FROM table WHERE key = $1
SelectOctetLength(t, k) == {Len(r.data) : r \in {x \in t : x.key = k}}

\* SELECT exists(SELECT 1 FROM table WHERE key = $1): always one row
SelectExists(t, k) == {\E r \in t : r.key = k}

\* A mutant of DeleteStmt: the rows whose key begins with $1 go as well.
DeleteStmtPrefix(t, k) ==
    {r \in t : ~(Len(k) <= Len(r.key) /\ SubSeq(r.key, 1, Len(k)) = k)}

\* DELETE FROM table WHERE key = $1
DeleteStmt(t, k) == {r \in t : r.key # k}

\* A mutant of UpsertStmt: a plain INSERT that ignores the conflict.
UpsertStmtNoConflict(t, k, v) == t \cup {[key |-> k, data |-> v]}

\* INSERT INTO table (key, data) VALUES ($1, $2)
\*   ON CONFLICT (key) DO UPDATE SET data = $2
UpsertStmt(t, k, v) ==
    IF \E r \in t : r.key = k
    THEN {IF r.key = k THEN [r EXCEPT !.data = v] ELSE r : r \in t}
    ELSE t \cup {[key |-> k, data |-> v]}

\* d.table: the table name the datastore was configured with
TableName == "blocks"

\* The text of the statements with bound parameters: fmt.Sprintf puts the
\* table name in, the key stays $1 and the value $2. A text is the
\* sequence of the pieces Sprintf joins.
GetText     == <<"SELECT data FROM ", TableName, " WHERE key = $1">>
GetSizeText ==
    <<"SELECT octet_length(data) FROM ", TableName, " WHERE key = $1">>
HasText     ==
    <<"SELECT exists(SELECT 1 FROM ", TableName, " WHERE key = $1)">>
DeleteText  == <<"DELETE FROM ", TableName, " WHERE key = $1">>
PutText     ==
    <<"INSERT INTO ", TableName, " (key, data) VALUES ($1, $2)",
      " ON CONFLICT (key) DO UPDATE SET data = $2">>

\* One statement on its way to the engine: its text, and the parameters
\* bound to $1 and $2 (empty where the text has no such parameter).
Statement(text, k, v) == [text |-> text, key |-> k, data |-> v]

\* row.Scan(&dst) on the row of QueryRow: the engine's failure, or
\* pgx.ErrNoRows when the result is empty, or the first row. dflt is the
\* zero value dst holds when nothing is scanned.
RowScan(result, fault, dflt) ==
    IF fault # NoFault THEN [err |-> fault, val |-> dflt]
    ELSE IF result = {} THEN [err |-> ErrNoRows, val |-> dflt]
    ELSE [err |-> Nil, val |-> CHOOSE x \in result : TRUE]

----------------------------------------------------------------------------
(* The single-key operations *)

Result(op, k, value, size, exists, err, fault, before) ==
    [op |-> op, key |-> k, value |-> value, size |-> size, exists |-> exists,
     err |-> err, fault |-> fault, before |-> before]

NoCall == Result("none", <<>>, <<>>, 0, FALSE, Nil, NoFault, {})

\* A mutant of GetResult: whatever made Scan fail, the key is not found.
GetResultAnyNotFound(t, k, fault) ==
    LET sc == RowScan(SelectData(t, k), fault, <<>>) IN
    IF sc.err = Nil THEN [value |-> sc.val, err |-> Nil]
    ELSE [value |-> <<>>, err |-> ErrNotFound]

\* Datastore.Get: the value and the error it returns
GetResult(t, k, fault) ==
    LET sc == RowScan(SelectData(t, k), fault, <<>>) IN
    CASE sc.err = ErrNoRows -> [value |-> <<>>, err |-> ErrNotFound]
      [] sc.err = Nil       -> [value |-> sc.val, err |-> Nil]
      [] OTHER              -> [value |-> <<>>, err |-> sc.err]

\* A mutant of HasResult: an absent row is reported as ErrNotFound.
HasResultNotFound(t, k, fault) ==
    LET sc == RowScan(SelectExists(t, k), fault, FALSE) IN
    CASE sc.err = Nil /\ sc.val -> [exists |-> TRUE, err |-> Nil]
      [] sc.err = Nil           -> [exists |-> FALSE, err |-> ErrNotFound]
      [] OTHER                  -> [exists |-> FALSE, err |-> sc.err]

\* Datastore.Has
HasResult(t, k, fault) ==
    LET sc == RowScan(SelectExists(t, k), fault, FALSE) IN
    CASE sc.err = ErrNoRows -> [exists |-> sc.val, err |-> ErrNotFound]
      [] sc.err = Nil       -> [exists |-> sc.val, err |-> Nil]
      [] OTHER              -> [exists |-> sc.val, err |-> sc.err]

\* A mutant of GetSizeResult: an absent row has size 0.
GetSizeResultZero(t, k, fault) ==
    LET sc == RowScan(SelectOctetLength(t, k), fault, 0) IN
    CASE sc.err = ErrNoRows -> [size |-> 0, err |-> ErrNotFound]
      [] sc.err = Nil       -> [size |-> sc.val, err |-> Nil]
      [] OTHER              -> [size |-> InvalidSize, err |-> sc.err]

\* Datastore.GetSize
GetSizeResult(t, k, fault) ==
    LET sc == RowScan(SelectOctetLength(t, k), fault, 0) IN
    CASE sc.err = ErrNoRows -> [size |-> InvalidSize, err |-> ErrNotFound]
      [] sc.err = Nil       -> [size |-> sc.val, err |-> Nil]
      [] OTHER              -> [size |-> InvalidSize, err |-> sc.err]

\* pool.Exec: the tables the statement can leave. When the engine reports a
\* failure the statement may or may not have taken effect.
Exec(t, after, fault) == IF fault = NoFault THEN {after} ELSE {t, after}

Get(k, fault) ==
    /\ LET g == GetResult(table, k, fault) IN
         ret' = Result("Get", k, g.value, 0, FALSE, g.err, fault, table)
    /\ wire' = <<Statement(GetText, k, <<>>)>>
    /\ UNCHANGED <<table, lastWrite, batchVars, queryVars, inflight>>

Has(k, fault) ==
    /\ LET h == HasResult(table, k, fault) IN
         ret' = Result("Has", k, <<>>, 0, h.exists, h.err, fault, table)
    /\ wire' = <<Statement(HasText, k, <<>>)>>
    /\ UNCHANGED <<table, lastWrite, batchVars, queryVars, inflight>>

GetSize(k, fault) ==
    /\ LET s == GetSizeResult(table, k, fault) IN
         ret' = Result("GetSize", k, <<>>, s.size, FALSE, s.err, fault, table)
    /\ wire' = <<Statement(GetSizeText, k, <<>>)>>
    /\ UNCHANGED <<table, lastWrite, batchVars, queryVars, inflight>>

\* A mutant of DeleteErr: deleting an absent key is an error.
DeleteErrAbsent(t, k, fault) ==
    IF fault # NoFault THEN fault
    ELSE IF \E r \in t : r.key = k THEN Nil ELSE ErrNotFound

\* Datastore.Delete: the error it returns
DeleteErr(t, k, fault) == IF fault # NoFault THEN fault ELSE Nil

Put(k, v, fault) ==
    /\ table' \in Exec(table, UpsertStmt(table, k, v), fault)
    /\ ret' = Result("Put", k, v, 0, FALSE,
                     IF fault # NoFault THEN fault ELSE Nil, fault, table)
    /\ lastWrite' = IF fault = NoFault
                    THEN [lastWrite EXCEPT ![k] = <<"put", v>>]
                    ELSE [lastWrite EXCEPT ![k] = <<"failed", <<>>>>]
    /\ wire' = <<Statement(PutText, k, v)>>
    /\ UNCHANGED <<batchVars, queryVars, inflight>>

Delete(k, fault) ==
    /\ table' \in Exec(table, DeleteStmt(table, k), fault)
    /\ ret' = Result("Delete", k, <<>>, 0, FALSE,
                     DeleteErr(table, k, fault), fault, table)
    /\ lastWrite' = IF fault = NoFault
                    THEN [lastWrite EXCEPT ![k] = <<"delete", <<>>>>]
                    ELSE [lastWrite EXCEPT ![k] = <<"failed", <<>>>>]
    /\ wire' = <<Statement(DeleteText, k, <<>>)>>
    /\ UNCHANGED <<batchVars, queryVars, inflight>>

Sync(k) ==
    /\ ret' = Result("Sync", k, <<>>, 0, FALSE, Nil, NoFault, table)
    /\ wire' = <<>>
    /\ UNCHANGED <<table, lastWrite, batchVars, queryVars, inflight>>

----------------------------------------------------------------------------
(* Datastore.Put called by several callers at once. A call is three steps: *)
(* the caller hands the statement to the pool, the engine executes it, and *)
(* pool.Exec returns. The engine executes one INSERT ... ON CONFLICT DO     *)
(* UPDATE statement as a whole: it inserts or updates, whatever the other  *)
(* sessions do.                                                            *)

Callers == 1..MaxCallers

Idle == [pc |-> "idle", key |-> <<>>, value |-> <<>>, err |-> Nil,
         turn |-> 0, before |-> {}]

NoCallers == [c \in Callers |-> Idle]

\* The statements executed so far for the calls in flight.
Turns == Cardinality({c \in Callers : inflight[c].turn > 0})

\* Put, called by c: the statement leaves for the engine. before is the
\* table at that moment (history).
PutCall(c, k, v) ==
    /\ inflight[c].pc = "idle"
    /\ inflight' = [inflight EXCEPT ![c] =
                       [pc |-> "sent", key |-> k, value |-> v, err |-> Nil,
                        turn |-> 0, before |-> table]]
    /\ wire' = <<Statement(PutText, k, v)>>
    /\ UNCHANGED <<storeVars, batchVars, queryVars>>

\* A mutant of PutExec: a plain INSERT, which fails on a row that another
\* call in flight has written.
PutExecInsertOnly(c) ==
    /\ inflight[c].pc = "sent"
    /\ LET me   == inflight[c]
           lost == \E o \in Callers \ {c} :
                      inflight[o].turn > 0 /\ inflight[o].key = me.key
       IN /\ table' = IF lost THEN table
                      ELSE UpsertStmt(table, me.key, me.value)
          /\ inflight' = [inflight EXCEPT ![c] =
                             [me EXCEPT !.pc = "executed",
                                        !.err = IF lost THEN "conflict"
                                                ELSE Nil,
                                        !.turn = Turns + 1]]
    /\ UNCHANGED <<ret, lastWrite, batchVars, queryVars, wire>>

\* The engine executes the statement of c; turn is its place in the order
\* the engine executed the statements in (history).
PutExec(c) ==
    /\ inflight[c].pc = "sent"
    /\ LET me == inflight[c] IN
         /\ table' = UpsertStmt(table, me.key, me.value)
         /\ inflight' = [inflight EXCEPT ![c] =
                            [me EXCEPT !.pc = "executed", !.turn = Turns + 1]]
    /\ UNCHANGED <<ret, lastWrite, batchVars, queryVars, wire>>

\* pool.Exec returns to c, and Put returns its error.
PutReturn(c) ==
    /\ inflight[c].pc = "executed"
    /\ inflight' = [inflight EXCEPT ![c].pc = "returned"]
    /\ ret' = Result("Put", inflight[c].key, inflight[c].value, 0, FALSE,
                     inflight[c].err, NoFault, inflight[c].before)
    /\ UNCHANGED <<table, lastWrite, batchVars, queryVars, wire>>

----------------------------------------------------------------------------
(* The batch: batching.go, and its earlier version without BEGIN/COMMIT *)

Builds == {"batching.go", "earlier"}

Stmt(sql, k, v) == [sql |-> sql, key |-> k, data |-> v]

BeginStmt  == Stmt("BEGIN", <<>>, <<>>)
CommitStmt == Stmt("COMMIT", <<>>, <<>>)
InsertStmt(k, v) == Stmt("INSERT", k, v)
DeleteFromStmt(k) == Stmt("DELETE", k, <<>>)

\* A mutant of QueuePut: the statements go to the front of the queue.
QueuePutFront(b, k, v) == <<BeginStmt, InsertStmt(k, v), CommitStmt>> \o b

\* batch.Put of batching.go: BEGIN, the upsert, COMMIT
QueuePut(b, k, v) == b \o <<BeginStmt, InsertStmt(k, v), CommitStmt>>

\* batch.Delete of batching.go: BEGIN, the delete, COMMIT
QueueDelete(b, k) == b \o <<BeginStmt, DeleteFromStmt(k), CommitStmt>>

\* batch.Put of the earlier version: the upsert alone
QueuePutEarlier(b, k, v) == Append(b, InsertStmt(k, v))

\* batch.Delete of the earlier version: the delete alone
QueueDeleteEarlier(b, k) == Append(b, DeleteFromStmt(k))

\* A mutant of ExecStmt: BEGIN and COMMIT count for nothing, every
\* statement is committed as it is executed.
ExecStmtAutocommit(st, s) ==
    CASE s.sql \in {"BEGIN", "COMMIT"} -> st
      [] s.sql = "INSERT" ->
            [committed |-> UpsertStmt(st.working, s.key, s.data),
             working   |-> UpsertStmt(st.working, s.key, s.data)]
      [] s.sql = "DELETE" ->
            [committed |-> DeleteStmt(st.working, s.key),
             working   |-> DeleteStmt(st.working, s.key)]

\* One statement of a batch, on the engine: st.committed is the table as
\* committed, st.working the table the open transaction sees.
ExecStmt(st, s) ==
    CASE s.sql = "BEGIN"  -> st
      [] s.sql = "COMMIT" -> [committed |-> st.working, working |-> st.working]
      [] s.sql = "INSERT" ->
            [st EXCEPT !.working = UpsertStmt(st.working, s.key, s.data)]
      [] s.sql = "DELETE" ->
            [st EXCEPT !.working = DeleteStmt(st.working, s.key)]

\* pool.SendBatch: the engine executes the statements in order, in one round
\* trip that ends the implicit transaction. failAt is the statement that
\* fails (0: none): it and the statements after it are not executed, and
\* what the open transaction did is rolled back.
RECURSIVE SendBatch(_, _, _, _)
SendBatch(stmts, i, failAt, st) ==
    IF i > Len(stmts) THEN [table |-> st.working, done |-> Len(stmts)]
    ELSE IF i = failAt THEN [table |-> st.committed, done |-> i - 1]
    ELSE SendBatch(stmts, i + 1, failAt, ExecStmt(st, stmts[i]))

\* The loop of batch.Commit: one res.Exec() per queued statement, until the
\* first error. read counts the results it read.
RECURSIVE CommitLoop(_, _, _, _)
CommitLoop(n, i, failAt, fault) ==
    IF i > n THEN [err |-> Nil, read |-> n]
    ELSE IF failAt # 0 /\ i >= failAt THEN [err |-> fault, read |-> i]
    ELSE CommitLoop(n, i + 1, failAt, fault)

Call(op, k, v) == [op |-> op, key |-> k, value |-> v]

NothingSent == [failAt |-> 0, done |-> 0, read |-> 0, applied |-> 0]

\* The Put/Delete calls among the first n statements that were committed.
Applied(stmts, done, bld) ==
    IF bld = "batching.go" THEN done \div 3
    ELSE IF done = Len(stmts) THEN done ELSE 0

\* The text of a queued statement.
StmtText(st) ==
    CASE st.sql = "BEGIN"  -> <<"BEGIN">>
      [] st.sql = "COMMIT" -> <<"COMMIT">>
      [] st.sql = "INSERT" -> PutText
      [] st.sql = "DELETE" -> DeleteText

\* Datastore.Batch
NewBatch ==
    /\ batch' = <<>>
    /\ calls' = <<>>
    /\ ret' = Result("Batch", <<>>, <<>>, 0, FALSE, Nil, NoFault, table)
    /\ wire' = <<>>
    /\ UNCHANGED <<table, lastWrite, build, sent, queryVars, inflight>>

\* batch.Put (batching.go)
BatchPut(k, v) ==
    /\ build = "batching.go"
    /\ Len(calls) < MaxBatch
    /\ batch' = QueuePut(batch, k, v)
    /\ calls' = Append(calls, Call("Put", k, v))
    /\ ret' = Result("batch.Put", k, v, 0, FALSE, Nil, NoFault, table)
    /\ wire' = <<>>
    /\ UNCHANGED <<table, lastWrite, build, sent, queryVars, inflight>>

\* A mutant of BatchDelete: the row is deleted at once, and the delete
\* queued as well.
BatchDeleteNow(k) ==
    /\ build = "batching.go"
    /\ Len(calls) < MaxBatch
    /\ batch' = QueueDelete(batch, k)
    /\ calls' = Append(calls, Call("Delete", k, <<>>))
    /\ table' = DeleteStmt(table, k)
    /\ ret' = Result("batch.Delete", k, <<>>, 0, FALSE, Nil, NoFault, table)
    /\ wire' = <<>>
    /\ UNCHANGED <<lastWrite, build, sent, queryVars, inflight>>

\* batch.Delete (batching.go)
BatchDelete(k) ==
    /\ build = "batching.go"
    /\ Len(calls) < MaxBatch
    /\ batch' = QueueDelete(batch, k)
    /\ calls' = Append(calls, Call("Delete", k, <<>>))
    /\ ret' = Result("batch.Delete", k, <<>>, 0, FALSE, Nil, NoFault, table)
    /\ wire' = <<>>
    /\ UNCHANGED <<table, lastWrite, build, sent, queryVars, inflight>>

\* batch.Put (earlier version)
BatchPutEarlier(k, v) ==
    /\ build = "earlier"
    /\ Len(calls) < MaxBatch
    /\ batch' = QueuePutEarlier(batch, k, v)
    /\ calls' = Append(calls, Call("Put", k, v))
    /\ ret' = Result("batch.Put", k, v, 0, FALSE, Nil, NoFault, table)
    /\ wire' = <<>>
    /\ UNCHANGED <<table, lastWrite, build, sent, queryVars, inflight>>

\* batch.Delete (earlier version)
BatchDeleteEarlier(k) ==
    /\ build = "earlier"
    /\ Len(calls) < MaxBatch
    /\ batch' = QueueDeleteEarlier(batch, k)
    /\ calls' = Append(calls, Call("Delete", k, <<>>))
    /\ ret' = Result("batch.Delete", k, <<>>, 0, FALSE, Nil, NoFault, table)
    /\ wire' = <<>>
    /\ UNCHANGED <<table, lastWrite, build, sent, queryVars, inflight>>

\* A mutant of ResClose: the results are closed on the path that returns
\* nil only.
ResCloseOnSuccess(err) == IF err = Nil THEN 1 ELSE 0

\* defer res.Close(): the connections the batch results give back to the
\* pool when Commit returns err; the results not read are discarded.
ResClose(err) == 1

\* batch.Commit (both versions): send the batch on a connection of the
\* pool, read the results, close them.
Commit(failAt, fault) ==
    /\ (failAt = 0) <=> (fault = NoFault)
    /\ failAt <= Len(batch)
    /\ conns < MaxConns
    /\ LET run  == SendBatch(batch, 1, failAt,
                             [committed |-> table, working |-> table])
           loop == CommitLoop(Len(batch), 1, failAt, fault)
       IN /\ table' = run.table
          /\ sent' = [failAt |-> failAt, done |-> run.done, read |-> loop.read,
                      applied |-> Applied(batch, run.done, build)]
          /\ ret' = Result("Commit", <<>>, <<>>, 0, FALSE, loop.err, fault,
                           table)
          /\ conns' = conns + 1 - ResClose(loop.err)
    /\ wire' = [i \in 1..Len(batch) |->
                  Statement(StmtText(batch[i]), batch[i].key, batch[i].data)]
    /\ UNCHANGED <<lastWrite, build, batch, calls, inflight>>
    /\ UNCHANGED <<q, pipe, out, last, status, leaked, closes>>

----------------------------------------------------------------------------
(* Text: keys, prefixes and LIKE patterns *)

Chars == {"/", "a", "b", "_", "%"}

\* The byte of a character: the order strings compare in.
CharByte(c) ==
    CASE c = "%" -> 37 [] c = "/" -> 47 [] c = "_" -> 95
      [] c = "a" -> 97 [] c = "b" -> 98

\* strings.Compare(s, t) < 0
RECURSIVE StrLess(_, _)
StrLess(s, t) ==
    IF t = <<>> THEN FALSE
    ELSE IF s = <<>> THEN TRUE
    ELSE IF Head(s) = Head(t) THEN StrLess(Tail(s), Tail(t))
    ELSE CharByte(Head(s)) < CharByte(Head(t))

\* strings.HasPrefix(s, pre)
HasPrefix(s, pre) == Len(pre) <= Len(s) /\ SubSeq(s, 1, Len(pre)) = pre

\* path.Clean on a rooted path without "." segments: runs of "/" collapse
\* and a trailing "/" goes.
RECURSIVE PathClean(_, _)
PathClean(acc, s) ==
    IF s = <<>>
    THEN IF Len(acc) > 1 /\ acc[Len(acc)] = "/"
         THEN SubSeq(acc, 1, Len(acc) - 1) ELSE acc
    ELSE IF Head(s) = "/" /\ acc[Len(acc)] = "/" THEN PathClean(acc, Tail(s))
    ELSE PathClean(Append(acc, Head(s)), Tail(s))

\* ds.NewKey(s).String()
NewKeyString(s) == PathClean(<<"/">>, s)

\* s LIKE pat: "%" matches any run of characters, "_" any one character.
RECURSIVE Like(_, _)
Like(s, pat) ==
    IF pat = <<>> THEN s = <<>>
    ELSE IF Head(pat) = "%"
         THEN Like(s, Tail(pat)) \/ (s # <<>> /\ Like(Tail(s), pat))
    ELSE IF s = <<>> THEN FALSE
    ELSE IF Head(pat) = "_" THEN Like(Tail(s), Tail(pat))
    ELSE Head(s) = Head(pat) /\ Like(Tail(s), Tail(pat))

----------------------------------------------------------------------------
(* Datastore.Query: the statement it builds and what the engine returns *)

Descriptor(prefix, keysOnly, returnsSizes, filters, orders, limit, offset) ==
    [Prefix |-> prefix, KeysOnly |-> keysOnly, ReturnsSizes |-> returnsSizes,
     Filters |-> filters, Orders |-> orders, Limit |-> limit,
     Offset |-> offset]

\* The columns selected.
Projection(d) ==
    IF d.KeysOnly /\ d.ReturnsSizes THEN "key, octet_length(data)"
    ELSE IF d.KeysOnly THEN "key"
    ELSE "key, data"

\* The pattern of WHERE key LIKE '...' ORDER BY key, if the statement has
\* the clause: the cleaned prefix is pasted into the pattern as it is.
WhereLike(d) ==
    IF d.Prefix # <<>> /\ NewKeyString(d.Prefix) # <<"/">>
    THEN <<NewKeyString(d.Prefix) \o <<"/">> \o <<"%">>>>
    ELSE <<>>

\* A mutant of Pushdown: LIMIT and OFFSET always go into the statement.
PushdownAlways(d) == TRUE

\* Whether LIMIT and OFFSET go into the statement.
Pushdown(d) == Len(d.Filters) = 0 /\ Len(d.Orders) = 0

\* The statement of Datastore.Query; limit and offset 0: no such clause.
QuerySQL(d) ==
    [select  |-> Projection(d),
     like    |-> WhereLike(d),
     orderBy |-> WhereLike(d) # <<>>,
     limit   |-> IF Pushdown(d) THEN d.Limit ELSE 0,
     offset  |-> IF Pushdown(d) THEN d.Offset ELSE 0]

\* strconv.Itoa, as fmt's %d prints a number that is not negative
Digit(n) ==
    CASE n = 0 -> "0" [] n = 1 -> "1" [] n = 2 -> "2" [] n = 3 -> "3"
      [] n = 4 -> "4" [] n = 5 -> "5" [] n = 6 -> "6" [] n = 7 -> "7"
      [] n = 8 -> "8" [] n = 9 -> "9"

RECURSIVE Itoa(_)
Itoa(n) == IF n < 10 THEN <<Digit(n)>>
           ELSE Append(Itoa(n \div 10), Digit(n % 10))

\* The text of the statement of Datastore.Query: fmt.Sprintf writes the
\* cleaned prefix, the limit and the offset into it; nothing is bound.
QueryText(d) ==
    <<"SELECT ", Projection(d), " FROM ", TableName>>
      \o (IF WhereLike(d) # <<>>
          THEN <<" WHERE key LIKE '">> \o WhereLike(d)[1]
                  \o <<"' ORDER BY key">>
          ELSE <<>>)
      \o (IF Pushdown(d) /\ d.Limit # 0
          THEN <<" LIMIT ">> \o Itoa(d.Limit) ELSE <<>>)
      \o (IF Pushdown(d) /\ d.Offset # 0
          THEN <<" OFFSET ">> \o Itoa(d.Offset) ELSE <<>>)

\* The sequences that list the elements of S once each.
Perms(S) ==
    {f \in [1..Cardinality(S) -> S] :
        \A i, j \in 1..Cardinality(S) : i # j => f[i] # f[j]}

\* One row of the result, with the columns selected.
Column(r, select) ==
    [key  |-> r.key,
     data |-> IF select = "key, data" THEN r.data ELSE <<>>,
     size |-> IF select = "key, octet_length(data)" THEN Len(r.data) ELSE 0]

Drop(s, n) == IF n >= Len(s) THEN <<>> ELSE SubSeq(s, n + 1, Len(s))
Take(s, n) == IF n >= Len(s) THEN s ELSE SubSeq(s, 1, n)

\* The row streams the engine can answer the statement with: the rows that
\* match, by key when ORDER BY is there and in any order when it is not,
\* then OFFSET and LIMIT.
ExecSelect(sql, t) ==
    LET match == {r \in t : sql.like = <<>> \/ Like(r.key, sql.like[1])}
        orders == {f \in Perms(match) :
                     sql.orderBy =>
                        \A i \in 1..(Len(f) - 1) : StrLess(f[i].key, f[i + 1].key)}
        page(f) == LET rest == Drop(f, sql.offset)
                   IN IF sql.limit = 0 THEN rest ELSE Take(rest, sql.limit)
    IN {page([i \in 1..Len(f) |-> Column(f[i], sql.select)]) : f \in orders}

----------------------------------------------------------------------------
(* The result sequence: the row cursor, the Iterator of Datastore.Query and *)
(* the dsq stages stacked on it                                             *)

Entry(k, v, n) == [Key |-> k, Value |-> v, Size |-> n]

NoEntry == Entry(<<>>, <<>>, 0)

EntryResult(e) == [Entry |-> e, Error |-> Nil]
ErrorResult(err) == [Entry |-> NoEntry, Error |-> err]
EmptyResult == [Entry |-> NoEntry, Error |-> Nil]

\* The cursor of pool.Query: the rows the engine streams, how many were
\* fetched, and the fetch ("next") or decode ("scan") that fails, if any.
\* An open cursor holds a connection of the pool.
Cursor(rows, failAt, failKind, fault) ==
    [rows |-> rows, pos |-> 0, failAt |-> failAt, failKind |-> failKind,
     fault |-> fault, closed |-> FALSE, err |-> Nil, releases |-> 0]

NoCursor == [Cursor(<<>>, 0, "next", NoFault) EXCEPT !.closed = TRUE]

\* The state behind a result sequence: the cursor, the entries the order
\* stage holds, the counters of the offset and limit stages.
Pipe(c, d) ==
    [cur |-> c, buf |-> <<>>, off |-> d.Offset, lim |-> d.Limit,
     limClosed |-> FALSE]

NoPipe == [cur |-> NoCursor, buf |-> <<>>, off |-> 0, lim |-> 0,
           limClosed |-> FALSE]

NoQuery == Descriptor(<<>>, FALSE, FALSE, <<>>, <<>>, 0, 0)

Pulled(p, res, ok) == [p |-> p, res |-> res, ok |-> ok]

\* A mutant of RowsClose: every call gives a connection back.
RowsCloseAgain(c) == [c EXCEPT !.closed = TRUE, !.releases = c.releases + 1]

\* rows.Close(): gives the connection back to the pool, the first time;
\* releases counts how often it did.
RowsClose(c) ==
    IF c.closed THEN c
    ELSE [c EXCEPT !.closed = TRUE, !.releases = c.releases + 1]

\* rows.Next(): a row was fetched, or the cursor closed itself because the
\* rows ran out or the fetch failed.
RowsNext(c) ==
    IF c.closed THEN [cur |-> c, ok |-> FALSE]
    ELSE IF c.failKind = "next" /\ c.failAt = c.pos + 1
         THEN [cur |-> [RowsClose(c) EXCEPT !.err = c.fault], ok |-> FALSE]
    ELSE IF c.pos < Len(c.rows)
         THEN [cur |-> [c EXCEPT !.pos = c.pos + 1], ok |-> TRUE]
    ELSE [cur |-> RowsClose(c), ok |-> FALSE]

\* rows.Scan(...) of the row fetched: a row that fails to decode closes the
\* cursor with the error.
RowsScan(c) ==
    IF c.failKind = "scan" /\ c.failAt = c.pos
    THEN [RowsClose(c) EXCEPT !.err = c.fault]
    ELSE c

\* A mutant of Decode: the keys-only case is tried first, and the size of
\* a keys-and-sizes row is dropped.
DecodeKeysOnlyFirst(d, row) ==
    IF d.KeysOnly THEN Entry(row.key, <<>>, 0)
    ELSE Entry(row.key, row.data, IF d.ReturnsSizes THEN Len(row.data) ELSE 0)

\* The entry Iterator.Next decodes from the row, by projection mode.
Decode(d, row) ==
    IF d.KeysOnly /\ d.ReturnsSizes THEN Entry(row.key, <<>>, row.size)
    ELSE IF d.KeysOnly THEN Entry(row.key, <<>>, 0)
    ELSE Entry(row.key, row.data, IF d.ReturnsSizes THEN Len(row.data) ELSE 0)

\* A mutant of IteratorClose: the cursor is left open.
IteratorCloseNothing(p) == p

\* Iterator.Close of Datastore.Query: what it returns
IteratorCloseErr == Nil

\* Iterator.Close of Datastore.Query
IteratorClose(p) == [p EXCEPT !.cur = RowsClose(p.cur)]

\* Iterator.Next of Datastore.Query
IteratorNext(p, d) ==
    LET n == RowsNext(p.cur) IN
    IF ~n.ok
    THEN IF n.cur.err # Nil
         THEN Pulled([p EXCEPT !.cur = n.cur], ErrorResult(n.cur.err), FALSE)
         ELSE Pulled([p EXCEPT !.cur = n.cur], EmptyResult, FALSE)
    ELSE LET c == RowsScan(n.cur) IN
         IF c.err # Nil
         THEN Pulled([p EXCEPT !.cur = c], ErrorResult(c.err), FALSE)
         ELSE Pulled([p EXCEPT !.cur = c],
                     EntryResult(Decode(d, c.rows[c.pos])), TRUE)

\* NextSync of a dsq.ResultsFromIterator: it closes when next says there
\* is no more. Every Close of the stack ends in Iterator.Close.
CloseIfDone(r) == IF r.ok THEN r ELSE [r EXCEPT !.p = IteratorClose(r.p)]

\* dsq.ResultsFromIterator(q, it).NextSync()
BaseNextSync(p, d) == CloseIfDone(IteratorNext(p, d))

\* filter.Filter(entry) of the filters callers pass
Accepts(f, e) ==
    CASE f.kind = "KeyPrefix"  -> HasPrefix(e.Key, f.arg)
      [] f.kind = "KeyGreater" -> StrLess(f.arg, e.Key)

\* dsq.NaiveFilter(res, f).NextSync() for the first n filters stacked: the
\* next result that is an error or that the filter accepts; when the stage
\* below has no more, an empty Result and false.
RECURSIVE FilterNextSync(_, _, _)
FilterNextSync(p, d, n) ==
    IF n = 0 THEN BaseNextSync(p, d)
    ELSE LET r == FilterNextSync(p, d, n - 1) IN
         IF ~r.ok THEN CloseIfDone(Pulled(r.p, EmptyResult, FALSE))
         ELSE IF r.res.Error # Nil \/ Accepts(d.Filters[n], r.res.Entry)
              THEN r
         ELSE FilterNextSync(r.p, d, n)

\* dsq.Less(orders, a, b): the first comparator that tells a from b decides
RECURSIVE Less(_, _, _)
Less(orders, a, b) ==
    IF orders = <<>> THEN FALSE
    ELSE IF a.Key = b.Key THEN Less(Tail(orders), a, b)
    ELSE IF Head(orders) = "OrderByKey" THEN StrLess(a.Key, b.Key)
    ELSE StrLess(b.Key, a.Key)

\* sort.Slice(entries, Less(orders, ...))
Sorted(entries, orders) ==
    CHOOSE f \in {[i \in 1..Len(entries) |-> entries[g[i]]] :
                    g \in Perms(1..Len(entries))} :
        \A i \in 1..(Len(f) - 1) : ~Less(orders, f[i + 1], f[i])

\* The worker of dsq.NaiveOrder reads everything the stage below has
\* (through its channel, which ends at the first false and drops what came
\* with it), passing the errors on at once and collecting the entries.
RECURSIVE Collect(_, _, _, _)
Collect(p, d, errors, entries) ==
    LET r == FilterNextSync(p, d, Len(d.Filters)) IN
    IF ~r.ok THEN [p |-> r.p, errors |-> errors, entries |-> entries]
    ELSE IF r.res.Error # Nil
         THEN Collect(r.p, d, Append(errors, r.res), entries)
    ELSE Collect(r.p, d, errors, Append(entries, r.res.Entry))

\* dsq.NaiveOrder(res, orders...): res itself without orders; with orders
\* the worker starts at once and holds the sorted entries for the consumer.
NaiveOrder(p, d) ==
    IF Len(d.Orders) = 0 THEN p
    ELSE LET c == Collect(p, d, <<>>, <<>>)
             sorted == Sorted(c.entries, d.Orders)
         IN [IteratorClose(c.p) EXCEPT
                !.buf = c.errors \o
                        [i \in 1..Len(sorted) |-> EntryResult(sorted[i])]]

\* NextSync of what dsq.NaiveOrder returned
OrderNextSync(p, d) ==
    IF Len(d.Orders) = 0 THEN FilterNextSync(p, d, Len(d.Filters))
    ELSE IF p.buf = <<>> THEN Pulled(p, EmptyResult, FALSE)
    ELSE Pulled([p EXCEPT !.buf = Tail(p.buf)], Head(p.buf), TRUE)

\* Whether Datastore.Query stacks dsq.NaiveOffset and dsq.NaiveLimit.
\* A mutant of NaivePaging: offset and limit are always applied in memory.
NaivePagingAlways(d) == TRUE

\* Whether offset and limit are applied in memory, by NaiveOffset and
\* NaiveLimit.
NaivePaging(d) == Len(d.Filters) > 0 \/ Len(d.Orders) > 0

\* dsq.NaiveOffset(res, offset).NextSync(): skip while offset > 0, handing
\* on an error or the end met on the way.
RECURSIVE OffsetNextSync(_, _)
OffsetNextSync(p, d) ==
    IF ~(NaivePaging(d) /\ d.Offset # 0) THEN OrderNextSync(p, d)
    ELSE LET r == OrderNextSync(p, d) IN
         IF p.off > 0
         THEN IF ~r.ok \/ r.res.Error # Nil THEN CloseIfDone(r)
              ELSE OffsetNextSync([r.p EXCEPT !.off = p.off - 1], d)
         ELSE CloseIfDone(r)

\* dsq.NaiveLimit(res, limit).NextSync(): once limit results were handed
\* out it closes the stage below, once, and says there is no more.
LimitNextSync(p, d) ==
    IF ~(NaivePaging(d) /\ d.Limit # 0) THEN OffsetNextSync(p, d)
    ELSE IF p.lim = 0
         THEN Pulled([IteratorClose(p) EXCEPT !.limClosed = TRUE],
                     EmptyResult, FALSE)
    ELSE CloseIfDone(OffsetNextSync([p EXCEPT !.lim = p.lim - 1], d))

\* Close of the Results Datastore.Query returned: every stage hands it down
\* to Iterator.Close.
ResultsClose(p, d) ==
    IF NaivePaging(d) /\ d.Limit # 0
    THEN IF p.limClosed THEN p
         ELSE [IteratorClose(p) EXCEPT !.limClosed = TRUE]
    ELSE IteratorClose(p)

\* The connections a step gave back to the pool.
Released(before, after) == after.cur.releases - before.cur.releases

\* Datastore.Query, when pool.Query fails: no sequence, no connection held.
QueryFails(d, fault) ==
    /\ status = "none"
    /\ conns < MaxConns
    /\ fault # NoFault
    /\ ret' = Result("Query", <<>>, <<>>, 0, FALSE, fault, fault, {})
    /\ wire' = <<Statement(QueryText(d), <<>>, <<>>)>>
    /\ UNCHANGED <<table, lastWrite, batchVars, queryVars, inflight>>

\* Where a cursor over n rows can fail: nowhere, at a fetch (the one after
\* the last row too) or at the decoding of a row.
NoFailure == [at |-> 0, kind |-> "next", fault |-> NoFault]

Failures(n) ==
    {NoFailure}
      \cup [at : 1..(n + 1), kind : {"next"}, fault : BackendErrors]
      \cup [at : 1..n, kind : {"scan"}, fault : BackendErrors]

\* Datastore.Query: build the statement, run it, stack the stages. The
\* engine answers with one of the row streams the statement allows; fail
\* says where the cursor will fail.
Query(d, fail) ==
    /\ status = "none"
    /\ conns < MaxConns
    /\ \E rows \in ExecSelect(QuerySQL(d), table) :
         /\ fail \in Failures(Len(rows))
         /\ LET p0 == Pipe(Cursor(rows, fail.at, fail.kind, fail.fault), d)
                p1 == NaiveOrder(p0, d)
            IN /\ pipe' = p1
               /\ conns' = conns + 1 - Released(p0, p1)
    /\ status' = "open"
    /\ q' = d
    /\ out' = <<>>
    /\ last' = EmptyResult
    /\ ret' = Result("Query", <<>>, <<>>, 0, FALSE, Nil, NoFault, {})
    /\ wire' = <<Statement(QueryText(d), <<>>, <<>>)>>
    /\ closes' = <<>>
    /\ UNCHANGED <<table, lastWrite, batchVars, leaked, inflight>>

\* The consumer asks the sequence for its next result.
NextSync ==
    /\ status = "open"
    /\ LET r == LimitNextSync(pipe, q) IN
         /\ pipe' = r.p
         /\ conns' = conns - Released(pipe, r.p)
         /\ IF r.ok
            THEN out' = Append(out, r.res) /\ UNCHANGED <<last, status>>
            ELSE last' = r.res /\ status' = "ended" /\ UNCHANGED out
    /\ UNCHANGED <<storeVars, batchVars, q, leaked, closes, callVars>>

\* The consumer closes the sequence, before or after its end, once or again.
Close ==
    /\ status \in {"open", "ended", "closed"}
    /\ Len(closes) < MaxCloses
    /\ closes' = Append(closes, IteratorCloseErr)
    /\ LET p == ResultsClose(pipe, q) IN
         /\ pipe' = p
         /\ conns' = conns - Released(pipe, p)
    /\ status' = "closed"
    /\ UNCHANGED <<storeVars, batchVars, q, out, last, leaked, callVars>>

\* The consumer lets go of the sequence: one that is still open keeps its
\* connection for good.
Forget ==
    /\ status \in {"open", "ended", "closed"}
    /\ status' = "none"
    /\ leaked' = leaked + (IF pipe.cur.closed THEN 0 ELSE 1)
    /\ q' = NoQuery
    /\ pipe' = NoPipe
    /\ out' = <<>>
    /\ last' = EmptyResult
    /\ closes' = <<>>
    /\ UNCHANGED <<storeVars, batchVars, conns, callVars>>

----------------------------------------------------------------------------
(* Spec: the single-key operations on a table that holds any rows *)

Init ==
    /\ table \in Tables(StoreKeys, Values)
    /\ ret = NoCall
    /\ lastWrite = [k \in StoreKeys |-> <<"none", <<>>>>]
    /\ build = "batching.go"
    /\ batch = <<>>
    /\ calls = <<>>
    /\ sent = NothingSent
    /\ q = NoQuery
    /\ pipe = NoPipe
    /\ out = <<>>
    /\ last = EmptyResult
    /\ status = "none"
    /\ conns = 0
    /\ leaked = 0
    /\ closes = <<>>
    /\ inflight = NoCallers
    /\ wire = <<>>

DoGet     == \E k \in StoreKeys, f \in Faults : Get(k, f)
DoHas     == \E k \in StoreKeys, f \in Faults : Has(k, f)
DoGetSize == \E k \in StoreKeys, f \in Faults : GetSize(k, f)
DoPut     == \E k \in StoreKeys, v \in Values, f \in Faults : Put(k, v, f)
DoDelete  == \E k \in StoreKeys, f \in Faults : Delete(k, f)
DoSync    == \E k \in StoreKeys : Sync(k)

Next == DoGet \/ DoHas \/ DoGetSize \/ DoPut \/ DoDelete \/ DoSync

Spec == Init /\ [][Next]_vars

RowsFor(t, k) == {r \in t : r.key = k}

\* C1: a Get(k) that follows a successful Put(k, v) with no write to k in
\* between returns exactly v, whatever k held before the Put; and after the
\* Put (repeated or not) the table holds exactly one row for k, with data v.
C1_PutGetRoundTrip ==
    /\ \A k \in StoreKeys :
         lastWrite[k][1] = "put" =>
            RowsFor(table, k) = {[key |-> k, data |-> lastWrite[k][2]]}
    /\ (ret.op = "Get" /\ ret.fault = NoFault
            /\ lastWrite[ret.key][1] = "put") =>
         (ret.err = Nil /\ ret.value = lastWrite[ret.key][2])
    /\ (ret.op = "Put" /\ ret.err = Nil
            /\ [key |-> ret.key, data |-> ret.value] \in ret.before) =>
         table = ret.before

\* Get(k) returned a non-empty v after a successful Put(k, v), in a run
\* that also deleted another key.
C1_Witness ==
    /\ ret.op = "Get" /\ ret.err = Nil
    /\ lastWrite[ret.key] = <<"put", ret.value>>
    /\ ret.value # <<>>
    /\ \E k \in StoreKeys \ {ret.key} : lastWrite[k][1] = "delete"

\* C2: Delete(k) returns nil whether or not k has a row (never NotFound),
\* leaves no row for k and no other change, so deleting an absent key
\* leaves the table as it was; a Get(k) after it, with no write to k in
\* between, returns ErrNotFound.
C2_DeleteThenGetNotFound ==
    /\ ret.op = "Delete" =>
         /\ ret.err = (IF ret.fault = NoFault THEN Nil ELSE ret.fault)
         /\ ret.err = Nil => table = {r \in ret.before : r.key # ret.key}
         /\ (ret.err = Nil /\ RowsFor(ret.before, ret.key) = {}) =>
                table = ret.before
    /\ \A k \in StoreKeys :
         lastWrite[k][1] = "delete" => RowsFor(table, k) = {}
    /\ (ret.op = "Get" /\ ret.fault = NoFault
            /\ lastWrite[ret.key][1] = "delete") =>
         (ret.err = ErrNotFound /\ ret.value = <<>>)

\* Delete of an absent key returned nil.
C2_Witness ==
    /\ ret.op = "Delete" /\ ret.err = Nil
    /\ RowsFor(ret.before, ret.key) = {}
    /\ table # {}

\* C3: Has(k) returns true exactly when Get(k) in the same state returns a
\* value rather than ErrNotFound; for an absent key it returns false with
\* a nil error, never ErrNotFound.
C3_HasIffGet ==
    ret.op = "Has" =>
       /\ ret.err # ErrNotFound
       /\ ret.fault = NoFault =>
            /\ ret.err = Nil
            /\ ret.exists <=> (GetResult(table, ret.key, NoFault).err = Nil)
            /\ ~ret.exists <=>
                 (GetResult(table, ret.key, NoFault).err = ErrNotFound)

\* Has of an absent key returned false, not an error.
C3_Witness ==
    /\ ret.op = "Has" /\ ret.err = Nil /\ ~ret.exists
    /\ table # {}

\* C4: when Get(k) returns v, GetSize(k) in the same state returns len(v),
\* 0 for an empty value; when Get(k) returns ErrNotFound, GetSize(k)
\* returns ErrNotFound with the size -1.
C4_GetSizeIsLen ==
    (ret.op = "GetSize" /\ ret.fault = NoFault) =>
       LET g == GetResult(table, ret.key, NoFault) IN
       /\ g.err = Nil => (ret.err = Nil /\ ret.size = Len(g.value))
       /\ g.err = ErrNotFound =>
            (ret.err = ErrNotFound /\ ret.size = InvalidSize)

\* GetSize returned 0 for a stored empty value.
C4_Witness ==
    /\ ret.op = "GetSize" /\ ret.err = Nil /\ ret.size = 0
    /\ [key |-> ret.key, data |-> <<>>] \in table

\* C12: Get and GetSize send their one statement once; when the engine
\* answers, they return ErrNotFound exactly when the key has no row, and
\* when the engine reports a failure they return that failure as it is,
\* row or no row, so ErrNotFound is only ever returned for a key without a
\* row.
C12_NotFoundIffAbsent ==
    ret.op \in {"Get", "GetSize"} =>
       /\ wire = <<Statement(IF ret.op = "Get" THEN GetText ELSE GetSizeText,
                             ret.key, <<>>)>>
       /\ ret.fault = NoFault =>
            /\ (ret.err = ErrNotFound) <=> (RowsFor(table, ret.key) = {})
            /\ ret.err \in {Nil, ErrNotFound}
       /\ ret.fault # NoFault => ret.err = ret.fault
       /\ ret.err = ErrNotFound => RowsFor(table, ret.key) = {}

\* The engine failed a Get of a key without a row, in a table with rows:
\* Get returned the failure.
C12_Witness ==
    /\ ret.op = "Get" /\ ret.fault \in BackendErrors
    /\ ret.err = ret.fault
    /\ RowsFor(table, ret.key) = {}
    /\ table # {}

----------------------------------------------------------------------------
(* SpecBatch: one caller fills and commits batches *)

BatchValues == {<<0>>, <<1>>}

InitBatch ==
    /\ table \in Tables(StoreKeys, BatchValues)
    /\ ret = NoCall
    /\ lastWrite = [k \in StoreKeys |-> <<"none", <<>>>>]
    /\ build \in Builds
    /\ batch = <<>>
    /\ calls = <<>>
    /\ sent = NothingSent
    /\ q = NoQuery
    /\ pipe = NoPipe
    /\ out = <<>>
    /\ last = EmptyResult
    /\ status = "none"
    /\ conns = 0
    /\ leaked = 0
    /\ closes = <<>>
    /\ inflight = NoCallers
    /\ wire = <<>>

DoNewBatch    == NewBatch
DoBatchPut    == \E k \in StoreKeys, v \in BatchValues : BatchPut(k, v)
DoBatchDelete == \E k \in StoreKeys : BatchDelete(k)
DoBatchPutEarlier ==
    \E k \in StoreKeys, v \in BatchValues : BatchPutEarlier(k, v)
DoBatchDeleteEarlier == \E k \in StoreKeys : BatchDeleteEarlier(k)
DoCommit ==
    \E failAt \in 0..(3 * MaxBatch), f \in Faults : Commit(failAt, f)

NextBatch ==
    \/ DoNewBatch
    \/ DoBatchPut
    \/ DoBatchDelete
    \/ DoBatchPutEarlier
    \/ DoBatchDeleteEarlier
    \/ DoCommit

SpecBatch == InitBatch /\ [][NextBatch]_vars

\* The calls applied to a table one by one, in order.
RECURSIVE ApplyCalls(_, _)
ApplyCalls(t, cs) ==
    IF cs = <<>> THEN t
    ELSE ApplyCalls(IF Head(cs).op = "Put"
                    THEN UpsertStmt(t, Head(cs).key, Head(cs).value)
                    ELSE DeleteStmt(t, Head(cs).key),
                    Tail(cs))

\* C7: after a Commit that returns nil the table is the table before it with
\* the batch's Put and Delete calls applied one by one in the order they
\* were made, so the last call on a key wins.
C7_BatchOrderHonored ==
    (ret.op = "Commit" /\ ret.err = Nil) =>
        table = ApplyCalls(ret.before, calls)

\* A batch of Put(a, v) then Delete(a) was committed on a table without a.
C7_WitnessPutDelete ==
    /\ ret.op = "Commit" /\ ret.err = Nil
    /\ Len(calls) = 2
    /\ calls[1].op = "Put" /\ calls[2].op = "Delete"
    /\ calls[1].key = calls[2].key
    /\ RowsFor(ret.before, calls[1].key) = {}
    /\ RowsFor(table, calls[1].key) = {}

\* C16: Commit sends the queued statements in one round trip and reads their
\* results from the first on: all of them, returning nil, when none
\* failed; up to the first that failed and no further, returning its
\* error, when one did. Either way the connection it sent the batch on is
\* back in the pool when it returns, and it returns nil only when every
\* queued statement was executed.
C16_CommitReadsUntilFirstError ==
    /\ ret.op = "Commit" =>
         /\ Len(wire) = Len(batch)
         /\ sent.failAt = 0 => (ret.err = Nil /\ sent.read = Len(batch))
         /\ sent.failAt # 0 =>
               /\ ret.err = ret.fault /\ ret.err \in BackendErrors
               /\ sent.read = sent.failAt
         /\ ret.err = Nil => sent.done = Len(batch)
    /\ conns = 0

\* A Commit of two calls (six statements in batching.go) whose second
\* statement failed: two results read, four left, the connection back.
C16_Witness ==
    /\ ret.op = "Commit" /\ ret.err \in BackendErrors
    /\ Len(batch) = 6 /\ sent.failAt = 2 /\ sent.read = 2
    /\ conns = 0

\* C10: a Commit that fails after some of its Put/Delete calls took effect
\* and before the others did returns an outcome of its own, neither nil nor
\* the error a Commit that applied nothing returns.
C10_PartialOutcomeDistinct ==
    (ret.op = "Commit" /\ 0 < sent.applied /\ sent.applied < Len(calls)) =>
        ret.err \notin ({Nil} \cup BackendErrors)

----------------------------------------------------------------------------
(* SpecQuery: queries with filters, orders, limits and offsets, consumed, *)
(* closed or dropped, on a table of a few rows                             *)

QueryRows ==
    {[key |-> <<"/", "a">>,                data |-> <<>>],
     [key |-> <<"/", "a", "b">>,           data |-> <<0>>],
     [key |-> <<"/", "a", "/", "b">>,      data |-> <<1>>],
     [key |-> <<"/", "a", "b", "/", "a">>, data |-> <<0, 1>>]}

QueryTables == {t \in SUBSET QueryRows : Cardinality(t) <= MaxRows}

FilterAB == [kind |-> "KeyPrefix", arg |-> <<"/", "a", "b">>]
FilterGT == [kind |-> "KeyGreater", arg |-> <<"/", "a", "b">>]

FilterLists == {<<>>, <<FilterAB>>, <<FilterAB, FilterGT>>}
OrderLists  == {<<>>, <<"OrderByKeyDescending">>}
QueryPrefixes == {<<>>, <<"/", "a">>}

Descriptors ==
    {Descriptor(p, ko, ko, fs, os, l, o) :
        p \in QueryPrefixes, ko \in BOOLEAN,
        fs \in FilterLists, os \in OrderLists,
        l \in 0..MaxLimit, o \in 0..MaxOffset}

InitQuery ==
    /\ table \in QueryTables
    /\ ret = NoCall
    /\ lastWrite = [k \in StoreKeys |-> <<"none", <<>>>>]
    /\ build = "batching.go"
    /\ batch = <<>>
    /\ calls = <<>>
    /\ sent = NothingSent
    /\ q = NoQuery
    /\ pipe = NoPipe
    /\ out = <<>>
    /\ last = EmptyResult
    /\ status = "none"
    /\ conns = 0
    /\ leaked = 0
    /\ closes = <<>>
    /\ inflight = NoCallers
    /\ wire = <<>>

\* One Query per run, the first call on the datastore.
DoQuery ==
    /\ ret = NoCall
    /\ \E d \in Descriptors, fail \in Failures(MaxRows) : Query(d, fail)
DoQueryFails ==
    /\ ret = NoCall
    /\ \E d \in Descriptors, f \in BackendErrors : QueryFails(d, f)
DoNextSync   == NextSync
DoClose      == Close

NextQuery == DoQuery \/ DoQueryFails \/ DoNextSync \/ DoClose

SpecQuery == InitQuery /\ [][NextQuery]_vars

----------------------------------------------------------------------------
(* SpecPool: sequences opened one after the other on a bounded pool, each *)
(* read in part or to its end, then closed or let go of                    *)

PoolDescriptors ==
    {Descriptor(<<>>, FALSE, FALSE, fs, os, l, 0) :
        fs \in {<<>>, <<FilterAB>>}, os \in OrderLists, l \in 0..1}

DoQueryPool ==
    \E d \in PoolDescriptors, fail \in Failures(MaxRows) : Query(d, fail)
DoForget == Forget

NextPool == DoQueryPool \/ DoNextSync \/ DoClose \/ DoForget

SpecPool == InitQuery /\ [][NextPool]_vars

\* What filter, then order, then offset, then limit make of the rows.
Expected(d, rows) ==
    LET entries == [i \in 1..Len(rows) |-> Decode(d, rows[i])]
        pass(e) == \A i \in 1..Len(d.Filters) : Accepts(d.Filters[i], e)
        kept    == SelectSeq(entries, pass)
        ordered == IF d.Orders = <<>> THEN kept
                   ELSE CHOOSE f \in {[i \in 1..Len(kept) |-> kept[g[i]]] :
                                         g \in Perms(1..Len(kept))} :
                          \A i \in 1..(Len(f) - 1) :
                             ~Less(d.Orders, f[i + 1], f[i])
        skipped == Drop(ordered, d.Offset)
    IN IF d.Limit = 0 THEN skipped ELSE Take(skipped, d.Limit)

Entries(results) == [i \in 1..Len(results) |-> results[i].Entry]

IsPrefixOf(s, t) == Len(s) <= Len(t) /\ SubSeq(t, 1, Len(s)) = s

\* C6: with a filter or an order in the descriptor, the cursor streams every
\* row the prefix matches (no LIMIT or OFFSET cut it), and the sequence
\* hands out the entries that pass every filter, ordered, without the first
\* Offset of them and cut to Limit: a part of them while it is open, all of
\* them once it ended.
C6_PagingAfterFilterAndOrder ==
    (status \in {"open", "ended"} /\ pipe.cur.err = Nil
        /\ Len(q.Filters) + Len(q.Orders) > 0) =>
       /\ pipe.cur.rows \in
             ExecSelect([QuerySQL(q) EXCEPT !.limit = 0, !.offset = 0], table)
       /\ \A i \in 1..Len(out) : out[i].Error = Nil
       /\ IsPrefixOf(Entries(out), Expected(q, pipe.cur.rows))
       /\ status = "ended" => Entries(out) = Expected(q, pipe.cur.rows)

\* A filtered query with a limit ended after Limit entries, and the filter
\* had dropped the first row of the stream.
C6_Witness ==
    /\ status = "ended" /\ pipe.cur.err = Nil
    /\ Len(q.Filters) > 0 /\ q.Orders = <<>>
    /\ q.Limit > 0 /\ Len(out) = q.Limit
    /\ Len(pipe.cur.rows) > q.Limit
    /\ out[1].Entry.Key # pipe.cur.rows[1].key

\* C8: when the cursor failed (a fetch or a decode) while a sequence was
\* read, the consumer gets that error with the end of the sequence, through
\* whatever stages are stacked.
C8_CursorErrorReachesConsumer ==
    (status = "ended" /\ pipe.cur.err # Nil) => last.Error = pipe.cur.err

\* C17: however often and whenever a sequence is closed (before its end,
\* after a clean end, after an end by an error), every Close returns nil,
\* the sequence is closed and its cursor released afterwards, the cursor
\* gave its connection back once and no more, and the connections checked
\* out are those of the sequences dropped open, plus one while this one
\* has its cursor open.
C17_CloseIdempotent ==
    /\ \A i \in 1..Len(closes) : closes[i] = Nil
    /\ Len(closes) > 0 => (status = "closed" /\ pipe.cur.closed)
    /\ pipe.cur.releases <= 1
    /\ status # "none" => (pipe.cur.closed <=> pipe.cur.releases = 1)
    /\ conns >= 0
    /\ conns = leaked + (IF status # "none" /\ ~pipe.cur.closed THEN 1 ELSE 0)

\* A sequence that ended by an error of its cursor was closed twice, while
\* a sequence dropped open holds a connection.
C17_Witness ==
    /\ status = "closed" /\ Len(closes) = 2
    /\ pipe.cur.err # Nil
    /\ pipe.cur.releases = 1
    /\ leaked = 1 /\ conns = 1

\* A sequence was closed twice before its end, rows unread.
C17_WitnessBeforeEnd ==
    /\ status = "closed" /\ Len(closes) = 2
    /\ pipe.cur.err = Nil /\ pipe.cur.pos < Len(pipe.cur.rows)
    /\ pipe.cur.releases = 1

\* A sequence was closed twice after its clean end.
C17_WitnessAfterEnd ==
    /\ status = "closed" /\ Len(closes) = 2
    /\ pipe.cur.err = Nil /\ pipe.cur.pos = Len(pipe.cur.rows)
    /\ Len(out) = Len(pipe.cur.rows) /\ Len(out) > 0
    /\ pipe.cur.releases = 1

\* C9: a sequence that ended or was closed has released its cursor, and the
\* connections still checked out are those of the sequences dropped open;
\* an open sequence holds one connection, and the pool's bound holds.
C9_ClosedSequenceReleasesConnection ==
    /\ status \in {"ended", "closed"} =>
          (pipe.cur.closed /\ conns = leaked)
    /\ conns = leaked + (IF status = "open" /\ ~pipe.cur.closed THEN 1 ELSE 0)
    /\ conns <= MaxConns

\* A sequence was closed after a partial read, rows still unread, while
\* an earlier sequence had been let go of open.
C9_Witness ==
    /\ status = "closed"
    /\ Len(out) > 0 /\ pipe.cur.pos < Len(pipe.cur.rows)
    /\ pipe.cur.err = Nil
    /\ leaked = 1 /\ conns = 1

----------------------------------------------------------------------------
(* SpecPrefix: keys-only queries by prefix, for every prefix of a few     *)
(* characters, read to the end                                             *)

PrefixRows ==
    QueryRows \cup {[key |-> <<"/", "a", "_", "/", "b">>, data |-> <<1>>]}

PrefixTables == {t \in SUBSET PrefixRows : Cardinality(t) <= MaxRows}

Prefixes == SeqsUpTo(Chars, MaxPrefix)

InitPrefix ==
    /\ table \in PrefixTables
    /\ ret = NoCall
    /\ lastWrite = [k \in StoreKeys |-> <<"none", <<>>>>]
    /\ build = "batching.go"
    /\ batch = <<>>
    /\ calls = <<>>
    /\ sent = NothingSent
    /\ q = NoQuery
    /\ pipe = NoPipe
    /\ out = <<>>
    /\ last = EmptyResult
    /\ status = "none"
    /\ conns = 0
    /\ leaked = 0
    /\ closes = <<>>
    /\ inflight = NoCallers
    /\ wire = <<>>

DoQueryPrefix ==
    \E p \in Prefixes :
        Query(Descriptor(p, TRUE, FALSE, <<>>, <<>>, 0, 0), NoFailure)

NextPrefix == DoQueryPrefix \/ DoNextSync \/ DoClose

SpecPrefix == InitPrefix /\ [][NextPrefix]_vars

KeysOf(results) == {results[i].Entry.Key : i \in 1..Len(results)}

\* The keys stored under the key c: those that begin with c and a "/".
KeysUnder(t, c) == {r.key : r \in {x \in t : HasPrefix(x.key, c \o <<"/">>)}}

\* C5: a query by a prefix whose cleaned form c is not the root, read to
\* its end, yields exactly the stored keys that begin with c followed by
\* "/", whatever characters the prefix is made of.
C5_PrefixYieldsKeysUnderIt ==
    (status = "ended" /\ pipe.cur.err = Nil
        /\ NewKeyString(q.Prefix) # <<"/">>) =>
       KeysOf(out) = KeysUnder(table, NewKeyString(q.Prefix))

\* The same for the prefixes without "%" and "_": there it holds.
C5_LiteralPrefixYieldsKeysUnderIt ==
    (status = "ended" /\ pipe.cur.err = Nil
        /\ NewKeyString(q.Prefix) # <<"/">>
        /\ \A i \in 1..Len(q.Prefix) : q.Prefix[i] \notin {"%", "_"}) =>
       KeysOf(out) = KeysUnder(table, NewKeyString(q.Prefix))

----------------------------------------------------------------------------
(* SpecConcurrent: callers that each call Put once, at the same time      *)

ConcurrentKeys == StoreKeys \cup {<<"/", "b">>}

InitConcurrent ==
    /\ table \in Tables(ConcurrentKeys, BatchValues)
    /\ ret = NoCall
    /\ lastWrite = [k \in StoreKeys |-> <<"none", <<>>>>]
    /\ build = "batching.go"
    /\ batch = <<>>
    /\ calls = <<>>
    /\ sent = NothingSent
    /\ q = NoQuery
    /\ pipe = NoPipe
    /\ out = <<>>
    /\ last = EmptyResult
    /\ status = "none"
    /\ conns = 0
    /\ leaked = 0
    /\ closes = <<>>
    /\ inflight = NoCallers
    /\ wire = <<>>

DoPutCall ==
    \E c \in Callers, k \in StoreKeys, v \in BatchValues : PutCall(c, k, v)
DoPutExec   == \E c \in Callers : PutExec(c)
DoPutReturn == \E c \in Callers : PutReturn(c)

NextConcurrent == DoPutCall \/ DoPutExec \/ DoPutReturn

SpecConcurrent == InitConcurrent /\ [][NextConcurrent]_vars

\* The keys the calls that returned wrote to.
KeysPut == {inflight[c].key : c \in Callers}

\* Of the callers that wrote to k, the one the engine served last.
LastPut(k) ==
    CHOOSE c \in Callers :
        /\ inflight[c].key = k
        /\ \A o \in Callers :
              inflight[o].key = k => inflight[o].turn <= inflight[c].turn

\* C11: once every concurrent Put returned, whatever the interleaving, each
\* of them returned nil, every key put holds exactly one row, with the
\* value of the Put the engine executed last on that key (so Puts to
\* different keys each left their value), and every other row is as it was
\* when the calls were made; the key is a primary key all along.
C11_ConcurrentPutSafe ==
    /\ PrimaryKey(table)
    /\ (\A c \in Callers : inflight[c].pc = "returned") =>
         /\ \A c \in Callers : inflight[c].err = Nil
         /\ \A k \in KeysPut :
               RowsFor(table, k) =
                  {[key |-> k, data |-> inflight[LastPut(k)].value]}
         /\ \A c \in Callers :
               {r \in table : r.key \notin KeysPut} =
                  {r \in inflight[c].before : r.key \notin KeysPut}

\* Two Puts of different values to one key without a row, both called
\* before either was executed; the engine served the second caller first,
\* and the table holds the value of the first.
C11_Witness ==
    /\ \A c \in Callers : inflight[c].pc = "returned"
    /\ \E c, o \in Callers :
         /\ c # o
         /\ inflight[c].key = inflight[o].key
         /\ inflight[c].value # inflight[o].value
         /\ RowsFor(inflight[c].before, inflight[c].key) = {}
         /\ RowsFor(inflight[o].before, inflight[o].key) = {}
         /\ inflight[o].turn < inflight[c].turn
         /\ RowsFor(table, inflight[c].key) =
               {[key |-> inflight[c].key, data |-> inflight[c].value]}
         /\ table # RowsFor(table, inflight[c].key)

----------------------------------------------------------------------------
(* Claims on what a query yields, checked on SpecQuery *)

\* The keys a descriptor without limit and offset asks for: those under
\* its prefix (all of them for the root) that pass its filters.
KeysAskedFor(d, t) ==
    LET c     == NewKeyString(d.Prefix)
        under == IF c = <<"/">> THEN {r.key : r \in t} ELSE KeysUnder(t, c)
    IN {k \in under :
          \A i \in 1..Len(d.Filters) :
             Accepts(d.Filters[i], Entry(k, <<>>, 0))}

\* C13: every entry a keys-only, returns-sizes query hands out carries the
\* key of a stored row, no value bytes, and as its size the length of the
\* value Get returns for that key; read to its end without limit and
\* offset, the query hands out one such entry for every row it asks for.
C13_KeysAndSizesOnly ==
    (status # "none" /\ q.KeysOnly /\ q.ReturnsSizes) =>
       /\ \A i \in 1..Len(out) :
             LET e == out[i].Entry
                 g == GetResult(table, e.Key, NoFault)
             IN /\ out[i].Error = Nil
                /\ e.Value = <<>>
                /\ g.err = Nil
                /\ e.Size = Len(g.value)
       /\ (status = "ended" /\ pipe.cur.err = Nil
              /\ q.Limit = 0 /\ q.Offset = 0) =>
            /\ KeysOf(out) = KeysAskedFor(q, table)
            /\ Len(out) = Cardinality(KeysAskedFor(q, table))

\* A keys-only, returns-sizes query was read to its end: two entries, one
\* of them for a value of two bytes.
C13_Witness ==
    /\ status = "ended" /\ pipe.cur.err = Nil
    /\ q.KeysOnly /\ q.ReturnsSizes
    /\ Len(out) = 2
    /\ \E i \in 1..2 : out[i].Entry.Size = 2 /\ out[i].Entry.Value = <<>>

\* Whether the text has the clause.
HasClause(text, clause) == \E i \in 1..Len(text) : text[i] = clause

\* C15: the statement of a Query carries LIMIT or OFFSET only when the
\* descriptor has no filter and no order; a limit or an offset that is not
\* 0 is applied once, in the statement or in memory, never in both and
\* never in neither; and a query without filters and orders, read to its
\* end, yields what the same statement without LIMIT and OFFSET can
\* answer, less its first Offset entries and cut to Limit entries, 0
\* standing for no skip and no cut.
C15_PagingPushedDownOnce ==
    (status # "none" /\ ret.op = "Query") =>
       LET text  == wire[1].text
           plain == [QuerySQL(q) EXCEPT !.limit = 0, !.offset = 0]
       IN
       /\ (HasClause(text, " LIMIT ") \/ HasClause(text, " OFFSET ")) =>
             (Len(q.Filters) = 0 /\ Len(q.Orders) = 0)
       /\ q.Limit # 0 =>
             (HasClause(text, " LIMIT ") <=> ~(NaivePaging(q) /\ q.Limit # 0))
       /\ q.Offset # 0 =>
             (HasClause(text, " OFFSET ")
                 <=> ~(NaivePaging(q) /\ q.Offset # 0))
       /\ q.Limit = 0 => ~HasClause(text, " LIMIT ")
       /\ q.Offset = 0 => ~HasClause(text, " OFFSET ")
       /\ (Len(q.Filters) = 0 /\ Len(q.Orders) = 0 /\ pipe.cur.err = Nil) =>
            /\ \E u \in ExecSelect(plain, table) :
                  /\ IsPrefixOf(Entries(out), Expected(q, u))
                  /\ status = "ended" => Entries(out) = Expected(q, u)
            /\ (status = "ended" /\ q.Limit = 0 /\ q.Offset = 0) =>
                  \E u \in ExecSelect(plain, table) :
                     Len(out) = Len(u)

\* A query without filters and orders, with offset 1 and limit 1, on two
\* rows: read to its end it yielded one entry, and the statement carried
\* both clauses.
C15_Witness ==
    /\ status = "ended" /\ pipe.cur.err = Nil
    /\ q.Filters = <<>> /\ q.Orders = <<>> /\ q.Prefix = <<>>
    /\ q.Limit = 1 /\ q.Offset = 1
    /\ Cardinality(table) = 2
    /\ Len(out) = 1
    /\ HasClause(wire[1].text, " LIMIT ")
    /\ HasClause(wire[1].text, " OFFSET ")

----------------------------------------------------------------------------
(* Claims on the statements sent *)

\* Two descriptors of one shape: they differ in the values of the prefix,
\* the limit and the offset at most, not in whether they have one.
SameShape(d, e) ==
    /\ d.KeysOnly = e.KeysOnly /\ d.ReturnsSizes = e.ReturnsSizes
    /\ d.Filters = e.Filters /\ d.Orders = e.Orders
    /\ (NewKeyString(d.Prefix) = <<"/">>) = (NewKeyString(e.Prefix) = <<"/">>)
    /\ (d.Limit = 0) = (e.Limit = 0)
    /\ (d.Offset = 0) = (e.Offset = 0)

\* The text each single-key operation sends, whatever its key and value.
TextOf(op) ==
    CASE op = "Get" -> GetText [] op = "Has" -> HasText
      [] op = "GetSize" -> GetSizeText [] op = "Put" -> PutText
      [] op = "Delete" -> DeleteText

\* C14: the text of a statement sent does not depend on the values of the
\* call: a single-key operation sends the text of its kind, and a Query
\* sends the text any descriptor of the same shape sends, whatever the
\* prefix, the limit and the offset.
C14_TextIndependentOfValues ==
    /\ ret.op \in {"Get", "Has", "GetSize", "Put", "Delete"} =>
          \A i \in 1..Len(wire) : wire[i].text = TextOf(ret.op)
    /\ (ret.op = "Query" /\ status # "none") =>
          \A p \in Prefixes, l \in 0..(MaxLimit + 1), o \in 0..(MaxOffset + 1) :
             LET e == [q EXCEPT !.Prefix = p, !.Limit = l, !.Offset = o] IN
             SameShape(q, e) => wire[1].text = QueryText(e)

----------------------------------------------------------------------------
(* Claims on what a batch leaves alone, checked on SpecBatch *)

\* What Get, Has and GetSize of every key and a Query of every descriptor
\* return on the table t when the engine does not fail.
Reads(t) ==
    [get   |-> [k \in StoreKeys |-> GetResult(t, k, NoFault)],
     has   |-> [k \in StoreKeys |-> HasResult(t, k, NoFault)],
     size  |-> [k \in StoreKeys |-> GetSizeResult(t, k, NoFault)],
     query |-> [d \in PoolDescriptors |-> ExecSelect(QuerySQL(d), t)]]

\* C19: in batching.go, where every call is queued as BEGIN, its statement
\* and COMMIT, a Commit that returns an error leaves the table as the calls
\* queued before the one whose statement failed make it, applied one by
\* one in the order they were made: that call and the calls after it did
\* nothing.
C19_FailedCommitAppliesPrefix ==
    (ret.op = "Commit" /\ ret.err # Nil /\ build = "batching.go") =>
        LET failing == ((sent.failAt - 1) \div 3) + 1 IN
        /\ failing \in 1..Len(calls)
        /\ table = ApplyCalls(ret.before, SubSeq(calls, 1, failing - 1))

\* A Commit of two calls failed at the COMMIT of the second: the first
\* changed the table, the second, which would have changed it too, did not.
C19_Witness ==
    /\ ret.op = "Commit" /\ ret.err # Nil /\ build = "batching.go"
    /\ Len(calls) = 2 /\ sent.failAt = 6
    /\ table # ret.before
    /\ table = ApplyCalls(ret.before, <<calls[1]>>)
    /\ table # ApplyCalls(ret.before, calls)

\* What C18 says of one step.
DeferredStep ==
    /\ ret'.op \in {"Batch", "batch.Put", "batch.Delete"} =>
          /\ table' = table
          /\ Reads(table') = Reads(table)
          /\ wire' = <<>>
    /\ ret'.op \in {"batch.Put", "batch.Delete"} =>
          /\ IsPrefixOf(batch, batch')
          /\ Len(batch') > Len(batch)
          /\ calls' = Append(calls, Call(IF ret'.op = "batch.Put"
                                         THEN "Put" ELSE "Delete",
                                         ret'.key, ret'.value))
    /\ table' # table => ret'.op = "Commit"

\* C18: a step that is Datastore.Batch, batch.Put or batch.Delete (of
\* either version) sends nothing to the engine and leaves the table and
\* with it the answer of every Get, Has, GetSize and Query as they were;
\* Put and Delete add their statements at the end of the queue and leave
\* the statements queued before in place. So the table changes in a
\* Commit or not at all.
C18_BatchOpsDeferred ==
    [][DeferredStep]_vars

\* A Delete of a stored key and a Put of another value for a stored key
\* are queued, nothing was committed, and the rows are as they were.
C18_Witness ==
    /\ ret.op = "batch.Put" /\ sent = NothingSent
    /\ Len(calls) = 2 /\ calls[1].op = "Delete"
    /\ RowsFor(table, calls[1].key) # {}
    /\ \E r \in table : r.key = ret.key /\ r.data # ret.value
    /\ table = ret.before

----------------------------------------------------------------------------
(* SpecFrame: single-key operations, then one Query whose results are    *)
(* read and closed                                                         *)

FrameDescriptors ==
    {Descriptor(<<>>, FALSE, TRUE, <<>>, os, 0, 0) : os \in OrderLists}

InitFrame ==
    /\ table \in Tables(StoreKeys, BatchValues)
    /\ ret = NoCall
    /\ lastWrite = [k \in StoreKeys |-> <<"none", <<>>>>]
    /\ build = "batching.go"
    /\ batch = <<>>
    /\ calls = <<>>
    /\ sent = NothingSent
    /\ q = NoQuery
    /\ pipe = NoPipe
    /\ out = <<>>
    /\ last = EmptyResult
    /\ status = "none"
    /\ conns = 0
    /\ leaked = 0
    /\ closes = <<>>
    /\ inflight = NoCallers
    /\ wire = <<>>

\* The single-key operations come first, the Query after them.
DoGetFrame ==
    /\ status = "none"
    /\ \E k \in StoreKeys : Get(k, NoFault)
DoHasFrame ==
    /\ status = "none"
    /\ \E k \in StoreKeys : Has(k, NoFault)
DoGetSizeFrame ==
    /\ status = "none"
    /\ \E k \in StoreKeys : GetSize(k, NoFault)
DoPutFrame ==
    /\ status = "none"
    /\ \E k \in StoreKeys, v \in BatchValues, f \in Faults : Put(k, v, f)
DoDeleteFrame ==
    /\ status = "none"
    /\ \E k \in StoreKeys, f \in Faults : Delete(k, f)
DoSyncFrame ==
    /\ status = "none"
    /\ \E k \in StoreKeys : Sync(k)
DoQueryFrame ==
    \E d \in FrameDescriptors, fail \in Failures(MaxRows) : Query(d, fail)

NextFrame ==
    \/ DoGetFrame
    \/ DoHasFrame
    \/ DoGetSizeFrame
    \/ DoPutFrame
    \/ DoDeleteFrame
    \/ DoSyncFrame
    \/ DoQueryFrame
    \/ DoNextSync
    \/ DoClose

SpecFrame == InitFrame /\ [][NextFrame]_vars

\* The rows of t with another key than k.
OtherRows(t, k) == {r \in t : r.key # k}

\* What C20 says of one step. ret' tells the last call on the datastore;
\* a step that changes the sequence is Query, NextSync or Close.
FrameStep ==
    /\ ret'.op \notin {"Put", "Delete"} => table' = table
    /\ ret'.op \in {"Put", "Delete"} =>
          OtherRows(table', ret'.key) = OtherRows(table, ret'.key)
    /\ queryVars' # queryVars => table' = table

\* C20: a step of Get, Has, GetSize, Sync or Query, and a step that reads
\* or closes the results of a Query, leaves every row of the table as it
\* is; a step of Put(k, v) or Delete(k) leaves every row with another key
\* than k as it is, whether the engine reported a failure or not.
C20_Frame ==
    [][FrameStep]_vars

\* Delete of a key removed its row and left the row of the key that
\* begins with it, which a Query then yielded, read to its end and closed.
C20_Witness ==
    /\ lastWrite[<<"/", "a">>][1] = "delete"
    /\ RowsFor(table, <<"/", "a">>) = {}
    /\ \E r \in table : HasPrefix(r.key, <<"/", "a">>)
    /\ ret.op = "Query"
    /\ status = "closed" /\ Len(out) = 1 /\ pipe.cur.err = Nil
    /\ out[1].Entry.Key = <<"/", "a", "/", "b">>

====
